---------------------------- MODULE Spec2Model ----------------------------
(***************************************************************************)
(* CompoundGenerator of scanpointgenerator: nesting of generators,         *)
(* excluder masks folded into Dimensions, and decoding of a linear index   *)
(* into a point (scanpointgenerator/core/compoundgenerator.py).            *)
(*                                                                         *)
(* Arrays are TLA+ sequences; a 0-based position i of the code is element  *)
(* i + 1 of the sequence.  A generator is named by its position in         *)
(* self.generators, an axis by the pair <<generator, c>>.  The code's      *)
(* divisions "repeat /= l" are exact, so they are integer divisions here.  *)
(* A mask's "tile" is a multiple of 0.5 in the code; the model keeps twice *)
(* its value in the field tile2.                                           *)
(***************************************************************************)
EXTENDS Integers, Sequences, FiniteSets, TLC

VARIABLES
    generators,             \* self.generators: sequence of [num, alt]
    excluders,              \* self.excluders: sequence of [scannables, rej]
    mutators,               \* self.mutators: sequence of mutator names
    outcome,                \* how the last prepare() ended ("none": no call yet)
    num,                    \* self.num
    dimensions,             \* self.dimensions
    generator_dim_scaling,  \* self.generator_dim_scaling: generator -> [tile, repeat]
    prepares,               \* how many times prepare() has been called
    call,                   \* the last get_point call: [n, res]
    iters,                  \* the live iterators obtained from iterator()
    readers                 \* get_point calls in progress, one per reader

vars == <<generators, excluders, mutators, outcome, num, dimensions,
          generator_dim_scaling, prepares, call, iters, readers>>

config == <<generators, excluders, mutators>>
prepared == <<num, dimensions, generator_dim_scaling>>

\* ------------------------------------------------------------------ bounds
MaxGens == 3
MaxNum == 3
MaxRej == 1
MaxExcl == 2
MaxPrepares == 3
SmallGens == 2
SmallExcl == 1
NumReaders == 2
MaxIters == 2
MaxMutators == 2
Slack == 1

\* ------------------------------------------------------------- array helpers
RECURSIVE Prod(_)
Prod(s) == IF s = <<>> THEN 1 ELSE Head(s) * Prod(Tail(s))

Reverse(s) == [i \in 1..Len(s) |-> s[Len(s) + 1 - i]]

\* np.repeat(s, k): every element k times in a row
NpRepeat(s, k) == [i \in 1..(Len(s) * k) |-> s[((i - 1) \div k) + 1]]

\* np.tile(s, k): the whole array k times
NpTile(s, k) == [i \in 1..(Len(s) * k) |-> s[((i - 1) % Len(s)) + 1]]

\* np.flatnonzero(mask): the 0-based positions where mask is true, ascending
RECURSIVE FlatNonZeroFrom(_, _)
FlatNonZeroFrom(mask, i) ==
    IF i > Len(mask) THEN <<>>
    ELSE (IF mask[i] THEN <<i - 1>> ELSE <<>>) \o FlatNonZeroFrom(mask, i + 1)

FlatNonZero(mask) == FlatNonZeroFrom(mask, 1)

\* ------------------------------------------------ generators and excluders
GenOf(axis) == axis[1]

\* generator.axes: every generator drives two axes
GenAxes(g) == << <<g, 1>>, <<g, 2>> >>

\* the position of an axis at index j: increasing in j, and no two axes share
\* a position
Position(axis, j) == 100 * axis[1] + 10 * axis[2] + j

\* generator.points[axis] after produce_points(): num ordered positions
GenPoints(axis) == [j \in 1..generators[GenOf(axis)].num |-> Position(axis, j - 1)]

GenNums(gs) == [i \in 1..Len(gs) |-> generators[gs[i]].num]

\* excluder.create_mask(x, y): pointwise keep-mask, same length as its inputs
Keep(e, x, y) == ~(x = e.rej[1] /\ y = e.rej[2])

CreateMask(e, xs, ys) == [i \in 1..Len(xs) |-> Keep(e, xs[i], ys[i])]

\* ------------------------------------------------------------------ prepare
\* prepare, first loop: one Dimension per generator
SeedDimension(g) ==
    [size |-> generators[g].num,
     axes |-> GenAxes(g),
     generators |-> <<g>>,
     masks |-> <<>>,
     tile |-> 1,
     repeat |-> 1,
     alternate |-> generators[g].alt,
     hasIndicies |-> FALSE,     \* whether the keys "mask" and "indicies" are set
     mask |-> <<>>,
     indicies |-> <<>>]

\* ResetDimensions left out: the Dimensions of the call before stay in the list
KeepDimensions(old) == old

\* self.dimensions = []
ResetDimensions(old) == <<>>

SeedDimensions(old) ==
    ResetDimensions(old) \o [g \in 1..Len(generators) |-> SeedDimension(g)]

\* self.num after the first loop: the product of the generators' counts
SeedNum == Prod([g \in 1..Len(generators) |-> generators[g].num])

InSeq(x, s) == \E i \in 1..Len(s) : s[i] = x

\* [i for i in self.dimensions if axis in i["axes"]][0], as a position
DimIndex(dims, axis) ==
    CHOOSE i \in 1..Len(dims) :
        /\ InSeq(axis, dims[i].axes)
        /\ \A k \in 1..(i - 1) : ~InSeq(axis, dims[k].axes)

RemoveAt(s, i) == SubSeq(s, 1, i - 1) \o SubSeq(s, i + 1, Len(s))

\* OuterMaskScale taking the outer Dimension's own generators
OuterMaskScaleOwn(dim_1, dim_2) == Prod(GenNums(dim_1.generators))

\* the scale applied to the masks the outer Dimension already holds
OuterMaskScale(dim_1, dim_2) == Prod(GenNums(dim_2.generators))

\* the scale applied to the masks the inner Dimension already holds
InnerMaskScale(dim_1, dim_2) == Prod(GenNums(dim_1.generators))

\* dim_1 after dim_2 has been merged into it
MergedDimension(dim_1, dim_2, outerScale, innerScale) ==
    [dim_1 EXCEPT
        !.masks = [k \in 1..Len(dim_1.masks) |->
                      [dim_1.masks[k] EXCEPT !.repeat = @ * outerScale]]
                  \o [k \in 1..Len(dim_2.masks) |->
                      [dim_2.masks[k] EXCEPT !.tile2 = @ * innerScale]],
        !.axes = dim_1.axes \o dim_2.axes,
        !.generators = dim_1.generators \o dim_2.generators,
        !.size = dim_1.size * dim_2.size]

\* merge "inner" dims[d2] into "outer" dims[d1] (d2 = d1 + 1)
MergeDimensions(dims, d1, d2) ==
    RemoveAt([dims EXCEPT ![d1] = MergedDimension(dims[d1], dims[d2],
                                      OuterMaskScale(dims[d1], dims[d2]),
                                      InnerMaskScale(dims[d1], dims[d2]))],
             d2)

\* RegionPoints with the outer-product expansion of two generators' axes the
\* wrong way round: the outer axis tiled and the inner axis repeated
RegionPointsSwapped(alternate, same, p1, p2, n1, n2) ==
    IF same /\ alternate
      THEN [doubled |-> TRUE, p1 |-> p1 \o Reverse(p1), p2 |-> p2 \o Reverse(p2)]
    ELSE IF alternate
      THEN [doubled |-> TRUE,
            p1 |-> NpRepeat(p1 \o Reverse(p1), n2),
            p2 |-> NpTile(p2 \o Reverse(p2), n1)]
    ELSE IF ~same
      THEN [doubled |-> FALSE, p1 |-> NpTile(p1, n2), p2 |-> NpRepeat(p2, n1)]
    ELSE [doubled |-> FALSE, p1 |-> p1, p2 |-> p2]

\* points_1 and points_2 handed to the excluder, at the Dimension's resolution;
\* same: gen_1 is gen_2; p1, p2: the axes' points; n1, n2: the generators' counts
RegionPoints(alternate, same, p1, p2, n1, n2) ==
    IF same /\ alternate
      THEN [doubled |-> TRUE, p1 |-> p1 \o Reverse(p1), p2 |-> p2 \o Reverse(p2)]
    ELSE IF alternate
      THEN [doubled |-> TRUE,
            p1 |-> NpRepeat(p1 \o Reverse(p1), n2),
            p2 |-> NpTile(p2 \o Reverse(p2), n1)]
    ELSE IF ~same
      THEN [doubled |-> FALSE, p1 |-> NpRepeat(p1, n2), p2 |-> NpTile(p2, n1)]
    ELSE [doubled |-> FALSE, p1 |-> p1, p2 |-> p2]

\* tile (in halves) and repeat of a new mask: the loop over dim["generators"]
RECURSIVE MaskScale(_, _, _, _, _)
MaskScale(gs, gen_1, gen_2, found_axis, acc) ==
    IF gs = <<>> THEN acc
    ELSE LET g == Head(gs)
         IN IF g = gen_1 \/ g = gen_2
              THEN MaskScale(Tail(gs), gen_1, gen_2, TRUE, acc)
            ELSE IF found_axis
              THEN MaskScale(Tail(gs), gen_1, gen_2, found_axis,
                             [acc EXCEPT !.repeat = @ * generators[g].num])
            ELSE MaskScale(Tail(gs), gen_1, gen_2, found_axis,
                           [acc EXCEPT !.tile2 = @ * generators[g].num])

\* tile = 0.5 if doubled_mask else 1, in halves
InitialTile2(doubled) == IF doubled THEN 1 ELSE 2

\* the mask of a region, its arguments in the excluder's own axis order
RegionMask(e, axis_1, pts) ==
    IF axis_1 = e.scannables[1]
      THEN CreateMask(e, pts.p1, pts.p2)
      ELSE CreateMask(e, pts.p2, pts.p1)

\* m = {"repeat": repeat, "tile": tile, "mask": mask}
MaskRecord(sc, mask) == [repeat |-> sc.repeat, tile2 |-> sc.tile2, mask |-> mask]

MaskFrom(dim, e, axis_1, axis_2, pts) ==
    MaskRecord(MaskScale(dim.generators, GenOf(axis_1), GenOf(axis_2), FALSE,
                         [tile2 |-> InitialTile2(pts.doubled), repeat |-> 1]),
               RegionMask(e, axis_1, pts))

NewMask(dim, e, axis_1, axis_2) ==
    MaskFrom(dim, e, axis_1, axis_2,
             RegionPoints(dim.alternate, GenOf(axis_1) = GenOf(axis_2),
                          GenPoints(axis_1), GenPoints(axis_2),
                          generators[GenOf(axis_1)].num, generators[GenOf(axis_2)].num))

\* the generators an excluder ties are adjacent in generator order
GenAdjacent(gen_diff) == ~(gen_diff < -1 \/ gen_diff > 1)

\* SameAlternate with the comparison left out
AnyAlternate(dim_1, dim_2) == TRUE

\* the Dimensions an excluder ties have the same alternate setting
SameAlternate(dim_1, dim_2) == dim_1.alternate = dim_2.alternate

\* dim["masks"].append(m), dim being dims[d]
AddMask(dims, d, e, axis_1, axis_2) ==
    [dims EXCEPT ![d].masks = Append(@, NewMask(dims[d], e, axis_1, axis_2))]

\* the Dimensions at positions i1 and i2 tied by excluder e
TieDimensions(dims, e, axis_1, axis_2, i1, i2) ==
    IF ~SameAlternate(dims[i1], dims[i2]) THEN [err |-> TRUE, dims |-> dims]
    ELSE IF i1 - i2 < -1 \/ i1 - i2 > 1 THEN [err |-> TRUE, dims |-> dims]
    ELSE IF i1 - i2 = 1
      THEN [err |-> FALSE,
            dims |-> AddMask(MergeDimensions(dims, i2, i1), i2, e, axis_1, axis_2)]
    ELSE IF i1 - i2 = -1
      THEN [err |-> FALSE,
            dims |-> AddMask(MergeDimensions(dims, i1, i2), i1, e, axis_1, axis_2)]
    ELSE [err |-> FALSE, dims |-> AddMask(dims, i1, e, axis_1, axis_2)]

\* the excluder's axes with the axis of the outer generator first
TieAxes(dims, e, axis_1, axis_2) ==
    TieDimensions(dims, e, axis_1, axis_2, DimIndex(dims, axis_1), DimIndex(dims, axis_2))

\* one pass of "for excluder in self.excluders"; err: a ValueError was raised
ExcluderStep(dims, e) ==
    IF ~GenAdjacent(GenOf(e.scannables[1]) - GenOf(e.scannables[2]))
      THEN [err |-> TRUE, dims |-> dims]
    ELSE IF GenOf(e.scannables[1]) - GenOf(e.scannables[2]) = 1
      THEN TieAxes(dims, e, e.scannables[2], e.scannables[1])
    ELSE TieAxes(dims, e, e.scannables[1], e.scannables[2])

RECURSIVE ExcluderLoop(_, _)
ExcluderLoop(r, es) ==
    IF es = <<>> \/ r.err THEN r
    ELSE ExcluderLoop(ExcluderStep(r.dims, Head(es)), Tail(es))

\* assert len(m["mask"]) * m["repeat"] * m["tile"] == len(mask)
MaskConsistent(m, size) == Len(m.mask) * m.repeat * m.tile2 = 2 * size

\* a mask record expanded to the Dimension: repeat each element, then tile,
\* with the half-length prefix appended when tile is a half-integer
ExpandMask(m) ==
    LET expanded == NpRepeat(m.mask, m.repeat)
    IN IF m.tile2 % 2 # 0
         THEN NpTile(expanded, m.tile2 \div 2)
                \o SubSeq(expanded, 1, Len(expanded) \div 2)
         ELSE NpTile(expanded, m.tile2 \div 2)

\* mask &= expanded (arrays of one length)
AndMask(mask, expanded) == [i \in 1..Len(mask) |-> mask[i] /\ expanded[i]]

\* one pass of "for m in dim['masks']": err is "" or the exception raised
MaskStep(mask, m, expanded, size) ==
    IF ~MaskConsistent(m, size) THEN [err |-> "AssertionError", mask |-> mask]
    ELSE IF Len(expanded) # Len(mask) THEN [err |-> "BroadcastError", mask |-> mask]
    ELSE [err |-> "", mask |-> AndMask(mask, expanded)]

RECURSIVE CombineMasks(_, _, _)
CombineMasks(c, ms, size) ==
    IF ms = <<>> \/ c.err # "" THEN c
    ELSE CombineMasks(MaskStep(c.mask, Head(ms), ExpandMask(Head(ms)), size),
                      Tail(ms), size)

\* dim["mask"] = mask; dim["indicies"] = np.flatnonzero(mask)
SetIndicies(dim, mask) ==
    [dim EXCEPT !.hasIndicies = TRUE, !.mask = mask, !.indicies = FlatNonZero(mask)]

\* one pass of "for dim in self.dimensions" of the mask loop
MaskedDimension(dim, c) ==
    IF c.err # "" THEN [err |-> c.err, dim |-> dim]
    ELSE [err |-> "", dim |-> SetIndicies(dim, c.mask)]

ApplyStep(dim) ==
    MaskedDimension(dim, CombineMasks([err |-> "", mask |-> [i \in 1..dim.size |-> TRUE]],
                                      dim.masks, dim.size))

\* ApplyResult without the test for a Dimension left with no valid index
RECURSIVE ApplyMasks(_, _)
ApplyResultUnchecked(dims, d, r) ==
    IF r.err # "" THEN [err |-> r.err, dims |-> dims]
    ELSE ApplyMasks([dims EXCEPT ![d] = r.dim], d + 1)

\* "Generate full index mask and apply": the Dimensions from position d on;
\* err is "" or the exception raised, "MaskError" for the ValueError
\* "Regions would exclude entire scan"
RECURSIVE ApplyResult(_, _, _)
ApplyResult(dims, d, r) ==
    IF r.err # "" THEN [err |-> r.err, dims |-> dims]
    ELSE IF Len(r.dim.indicies) = 0
      THEN [err |-> "MaskError", dims |-> [dims EXCEPT ![d] = r.dim]]
    ELSE ApplyMasks([dims EXCEPT ![d] = r.dim], d + 1)

ApplyMasks(dims, d) ==
    IF d > Len(dims) THEN [err |-> "", dims |-> dims]
    ELSE ApplyResult(dims, d, ApplyStep(dims[d]))

IndexCounts(dims) == [d \in 1..Len(dims) |-> Len(dims[d].indicies)]

\* dim["tile"] and dim["repeat"]: the products of the valid-index counts of
\* the Dimensions before and after
ScaleWith(dims, counts) ==
    [d \in 1..Len(dims) |->
        [dims[d] EXCEPT
            !.tile = Prod(SubSeq(counts, 1, d - 1)),
            !.repeat = Prod(SubSeq(counts, d + 1, Len(dims)))]]

ScaleDimensions(dims) == ScaleWith(dims, IndexCounts(dims))

\* generator_dim_scaling[g] for the generator at position k of a Dimension
GeneratorScale(gs, k) ==
    [tile |-> Prod(SubSeq(GenNums(gs), 1, k - 1)),
     repeat |-> Prod(SubSeq(GenNums(gs), k + 1, Len(gs)))]

\* the last loop of prepare: the entries written, over the ones already there
RECURSIVE UpdateScaling(_, _)
UpdateScaling(scaling, dims) ==
    IF dims = <<>> THEN scaling
    ELSE LET gs == Head(dims).generators
             new == [g \in {gs[k] : k \in 1..Len(gs)} |->
                        GeneratorScale(gs, CHOOSE k \in 1..Len(gs) : gs[k] = g)]
         IN UpdateScaling(new @@ scaling, Tail(dims))

\* prepare() from the mask loop on, ap being what that loop left
FinishPrepare(ap, oldScaling) ==
    IF ap.err # ""
      THEN [outcome |-> ap.err, num |-> SeedNum, dimensions |-> ap.dims,
            generator_dim_scaling |-> oldScaling]
      ELSE [outcome |-> "ok",
            num |-> Prod(IndexCounts(ap.dims)),
            dimensions |-> ScaleDimensions(ap.dims),
            generator_dim_scaling |-> UpdateScaling(oldScaling, ap.dims)]

\* prepare() from the excluder loop on, ex being what that loop left
AfterExcluders(ex, oldScaling) ==
    IF ex.err
      THEN [outcome |-> "ConfigError", num |-> SeedNum, dimensions |-> ex.dims,
            generator_dim_scaling |-> oldScaling]
      ELSE FinishPrepare(ApplyMasks(ex.dims, 1), oldScaling)

\* prepare() as a whole: what it leaves behind and how it ended
PrepareResult(oldDims, oldScaling) ==
    AfterExcluders(ExcluderLoop([err |-> FALSE, dims |-> SeedDimensions(oldDims)], excluders),
                   oldScaling)

\* ---------------------------------------------------------------- get_point
\* the positions one generator contributes for raw Dimension position k
GeneratorIndex(dim, g, k, scaling) ==
    LET j0 == k \div scaling[g].repeat
        gr == j0 \div generators[g].num
        j == j0 % generators[g].num
    IN IF dim.alternate /\ g # dim.generators[1] /\ gr % 2 = 1
         THEN generators[g].num - j - 1
         ELSE j

AxisPositions(g, j) ==
    [a \in {GenAxes(g)[c] : c \in 1..Len(GenAxes(g))} |-> GenPoints(a)[j + 1]]

\* "for g in dim['generators']"
RECURSIVE GeneratorLoop(_, _, _, _, _)
GeneratorLoop(dim, gs, k, scaling, positions) ==
    IF gs = <<>> THEN [err |-> "", positions |-> positions]
    ELSE LET g == Head(gs)
         IN IF g \notin DOMAIN scaling
              THEN [err |-> "KeyError", positions |-> positions]
            ELSE GeneratorLoop(dim, Tail(gs), k, scaling,
                    AxisPositions(g, GeneratorIndex(dim, g, k, scaling)) @@ positions)

\* the cumulative counter after a Dimension: kc *= len(indicies); kc += k,
\* k being the raw position at the selector before any reversal
NextKc(kc, dim, i) == kc * Len(dim.indicies) + dim.indicies[i + 1]

\* DimReverse without the test of dim["alternate"]
DimReverseAlways(dim, kc) == kc % 2 = 1

\* whether the Dimension is traversed backwards at this point
DimReverse(dim, kc) == dim.alternate /\ kc % 2 = 1

\* the selector of a Dimension: i = n // dim["repeat"]; i %= len(indicies)
Selector(dim, n) == (n \div dim.repeat) % Len(dim.indicies)

\* the selector as used: reversed when the Dimension runs backwards
Directed(dim, kc, i0) ==
    IF DimReverse(dim, kc) THEN Len(dim.indicies) - i0 - 1 ELSE i0

PointStep(p, dim, i0, i, gl) ==
    [err |-> gl.err,
     kc |-> NextKc(p.kc, dim, i0),
     indexes |-> Append(p.indexes, i),
     positions |-> gl.positions]

DecodeDimension(dim, p, i0, i, scaling) ==
    PointStep(p, dim, i0, i,
              GeneratorLoop(dim, dim.generators, dim.indicies[i + 1], scaling,
                            p.positions))

\* one pass of "for dim in self.dimensions" on the point p built so far
DimensionStep(dim, n, p, scaling) ==
    IF ~dim.hasIndicies THEN [p EXCEPT !.err = "KeyError"]
    ELSE IF Len(dim.indicies) = 0 THEN [p EXCEPT !.err = "ZeroDivisionError"]
    ELSE DecodeDimension(dim, p, Selector(dim, n),
                         Directed(dim, p.kc, Selector(dim, n)), scaling)

RECURSIVE DimensionLoop(_, _, _, _)
DimensionLoop(dims, n, p, scaling) ==
    IF dims = <<>> \/ p.err # "" THEN p
    ELSE DimensionLoop(Tail(dims), n, DimensionStep(Head(dims), n, p, scaling), scaling)

EmptyPoint == [err |-> "", kc |-> 0, indexes |-> <<>>, positions |-> <<>>]

\* if n >= self.num: raise IndexError
OutOfRange(n, total) == n >= total

\* get_point(n) on the state a prepare() call left behind
GetPointOn(n, total, dims, scaling) ==
    IF OutOfRange(n, total) THEN [EmptyPoint EXCEPT !.err = "IndexError"]
    ELSE DimensionLoop(dims, n, EmptyPoint, scaling)

get_point(n) ==
    IF outcome = "none" THEN [EmptyPoint EXCEPT !.err = "AttributeError"]
    ELSE GetPointOn(n, num, dimensions, generator_dim_scaling)

\* the Point handed to the caller (kc is a local of get_point)
PointOf(p) == [err |-> p.err, indexes |-> p.indexes, positions |-> p.positions]

\* ------------------------------------------------------------ configurations
GeneratorSet == [num : 1..MaxNum, alt : BOOLEAN]

GeneratorLists(most) == UNION {[1..k -> GeneratorSet] : k \in 1..most}

\* an excluder over two axes that rejects the position pair of indexes a and b
\* (nothing when a or b is no index of its generator)
RejectPair(axis_a, axis_b, a, b) ==
    [scannables |-> <<axis_a, axis_b>>,
     rej |-> <<Position(axis_a, a), Position(axis_b, b)>>]

\* excluders that name the two axes of one generator
SameGenExcluders(gs) ==
    {RejectPair(<<g, 1>>, <<g, 2>>, a, a) : g \in 1..Len(gs), a \in 0..MaxRej}

\* excluders that name the first axes of two adjacent generators, in either
\* order, and reject one index of the first axis at the first position of the
\* second
AdjacentExcluders(gs) ==
    {RejectPair(<<x[1], 1>>, <<x[2], 1>>, x[3], 0) :
        x \in {y \in (1..Len(gs)) \X (1..Len(gs)) \X (0..MaxRej) :
                  y[1] - y[2] = 1 \/ y[2] - y[1] = 1}}

\* excluders that name axes of generators that are not adjacent
DistantExcluders(gs) ==
    {RejectPair(<<x[1], 1>>, <<x[2], 1>>, 0, 0) :
        x \in {y \in (1..Len(gs)) \X (1..Len(gs)) : y[1] - y[2] > 1 \/ y[2] - y[1] > 1}}

ExcluderSet(gs) ==
    SameGenExcluders(gs) \cup AdjacentExcluders(gs) \cup DistantExcluders(gs)

ExcluderLists(gs, most) == UNION {[1..k -> ExcluderSet(gs)] : k \in 0..most}

\* a reader that is not inside get_point
Idle == [pc |-> "idle", n |-> 0, d |-> 0, p |-> EmptyPoint]

NoCall == [n |-> 0, res |-> PointOf([EmptyPoint EXCEPT !.err = "NoCall"])]

Unprepared ==
    /\ outcome = "none"
    /\ num = 0
    /\ dimensions = <<>>
    /\ generator_dim_scaling = <<>>
    /\ prepares = 0
    /\ call = NoCall
    /\ iters = <<>>
    /\ readers = [r \in 1..NumReaders |-> Idle]

\* ------------------------------------------------------------------ actions
\* the fields prepare() leaves on the instance
Store(r) ==
    /\ outcome' = r.outcome
    /\ num' = r.num
    /\ dimensions' = r.dimensions
    /\ generator_dim_scaling' = r.generator_dim_scaling

PrepareBody ==
    /\ Store(PrepareResult(dimensions, generator_dim_scaling))
    /\ UNCHANGED config

Prepare == PrepareBody /\ UNCHANGED <<prepares, call, iters, readers>>

\* prepare() called once more, the calls counted
PrepareAgain ==
    /\ prepares < MaxPrepares
    /\ prepares' = prepares + 1
    /\ PrepareBody
    /\ UNCHANGED <<call, iters, readers>>

\* the caller replaces the list of excluders (self.excluders)
SetExcluders(es) ==
    /\ excluders' = es
    /\ UNCHANGED <<generators, mutators, outcome, prepared, prepares, call, iters,
                   readers>>

\* the indexes a caller asks for: those around the two ends of the valid range
CallRange ==
    IF outcome = "none" THEN {0}
    ELSE {n \in (0 - Slack)..(num + Slack - 1) : n < Slack \/ n >= num - Slack}

GetPoint(n) ==
    /\ call' = [n |-> n, res |-> PointOf(get_point(n))]
    /\ UNCHANGED <<config, outcome, prepared, prepares, iters, readers>>

\* ---------------------------------------------------------------- mutators
\* mutator.mutate(it): a lazy transformation of every point of a sequence
Mutate(m, p) ==
    IF m = "shift" THEN [p EXCEPT !.positions = [a \in DOMAIN @ |-> @[a] + 1]]
    ELSE [p EXCEPT !.positions = [a \in DOMAIN @ |-> @[a] * 2]]

MutatorLists == UNION {[1..k -> {"shift", "double"}] : k \in 0..MaxMutators}

\* MutateAll with the mutators taken from the last to the first
RECURSIVE MutateAllReversed(_, _)
MutateAllReversed(ms, p) ==
    IF ms = <<>> THEN p
    ELSE MutateAllReversed(SubSeq(ms, 1, Len(ms) - 1), Mutate(ms[Len(ms)], p))

\* for m in self.mutators: it = m.mutate(it), for one point of the sequence
RECURSIVE MutateAll(_, _)
MutateAll(ms, p) ==
    IF ms = <<>> THEN p ELSE MutateAll(Tail(ms), Mutate(Head(ms), p))

\* ---------------------------------------------------------------- iterator
\* the generator object iterator() returns: its body has not run yet
NewIterator == [state |-> "new", total |-> 0, n |-> 0, out |-> <<>>, err |-> ""]

\* iterator()
Iterator ==
    /\ Len(iters) < MaxIters
    /\ iters' = Append(iters, NewIterator)
    /\ UNCHANGED <<config, outcome, prepared, prepares, call, readers>>

\* range_(self.num) is taken when the body starts to run
Total(it) == IF it.state = "new" THEN num ELSE it.total

\* what one next() does to an iterator, p being get_point of its position
Advance(it, total, p) ==
    IF it.state = "new" /\ outcome = "none"
      THEN [it EXCEPT !.state = "done", !.err = "AttributeError"]
    ELSE IF it.n >= total THEN [it EXCEPT !.state = "done", !.total = total]
    ELSE IF p.err # "" THEN [it EXCEPT !.state = "done", !.total = total, !.err = p.err]
    ELSE [it EXCEPT !.state = "running", !.total = total, !.n = @ + 1,
                    !.out = Append(@, MutateAll(mutators, p))]

\* next() on the i-th iterator obtained
IterNext(i) ==
    /\ iters[i].state # "done"
    /\ iters' = [iters EXCEPT ![i] = Advance(@, Total(@), PointOf(get_point(@.n)))]
    /\ UNCHANGED <<config, outcome, prepared, prepares, call, readers>>

\* ------------------------------------------------------- concurrent readers
\* AfterStep reversing dim["indicies"] in place when the Dimension runs backwards
ReversedInPlace(dims, d, kc) ==
    IF DimReverse(dims[d], kc) THEN [dims EXCEPT ![d].indicies = Reverse(@)] ELSE dims

\* what one pass of the loop of get_point leaves of self.dimensions: it
\* assigns to nothing but its locals and the Point
AfterStep(dims, d, kc) == dims

\* a reader enters get_point(n)
ReaderBegin(r, n) ==
    /\ readers[r].pc # "running"
    /\ readers' = [readers EXCEPT ![r] =
          IF outcome = "none"
            THEN [pc |-> "done", n |-> n, d |-> 0,
                  p |-> [EmptyPoint EXCEPT !.err = "AttributeError"]]
          ELSE IF OutOfRange(n, num)
            THEN [pc |-> "done", n |-> n, d |-> 0,
                  p |-> [EmptyPoint EXCEPT !.err = "IndexError"]]
          ELSE [pc |-> "running", n |-> n, d |-> 1, p |-> EmptyPoint]]
    /\ UNCHANGED <<config, outcome, prepared, prepares, call, iters>>

\* the reader's next state after the pass over Dimension d gave p
ReaderAfter(rd, p) ==
    IF p.err # "" \/ rd.d >= Len(dimensions)
      THEN [rd EXCEPT !.pc = "done", !.p = p]
      ELSE [rd EXCEPT !.d = @ + 1, !.p = p]

\* a reader runs one pass of "for dim in self.dimensions"
ReaderStep(r) ==
    /\ readers[r].pc = "running"
    /\ readers' = [readers EXCEPT ![r] =
          ReaderAfter(@, DimensionStep(dimensions[@.d], @.n, @.p,
                                       generator_dim_scaling))]
    /\ dimensions' = AfterStep(dimensions, readers[r].d, readers[r].p.kc)
    /\ UNCHANGED <<config, outcome, num, generator_dim_scaling, prepares, call, iters>>

\* prepare() called while no reader is inside get_point
PrepareQuiet ==
    /\ \A r \in 1..NumReaders : readers[r].pc # "running"
    /\ Prepare

Init ==
    /\ generators \in GeneratorLists(MaxGens)
    /\ excluders \in ExcluderLists(generators, MaxExcl)
    /\ mutators = <<>>
    /\ Unprepared

Next ==
    \/ Prepare
    \/ \E n \in CallRange : GetPoint(n)

Spec == Init /\ [][Next]_vars

\* prepare() called again and again on one configuration
SpecRepeat == Init /\ [][PrepareAgain]_vars

\* a caller that changes the excluders between calls
InitReconf ==
    /\ generators \in GeneratorLists(SmallGens)
    /\ excluders = <<>>
    /\ mutators = <<>>
    /\ Unprepared

NextReconf ==
    \/ Prepare
    \/ \E n \in CallRange : GetPoint(n)
    \/ \E es \in ExcluderLists(generators, SmallExcl) : SetExcluders(es)

SpecReconf == InitReconf /\ [][NextReconf]_vars

\* several readers inside get_point at once
InitSmall ==
    /\ generators \in GeneratorLists(SmallGens)
    /\ excluders \in ExcluderLists(generators, SmallExcl)
    /\ mutators = <<>>
    /\ Unprepared

NextReaders ==
    \/ PrepareQuiet
    \/ \E r \in 1..NumReaders : \E n \in CallRange : ReaderBegin(r, n)
    \/ \E r \in 1..NumReaders : ReaderStep(r)

SpecReaders == InitSmall /\ [][NextReaders]_vars

\* several iterators consumed in any interleaving
InitIter ==
    /\ generators \in GeneratorLists(SmallGens)
    /\ excluders \in ExcluderLists(generators, SmallExcl)
    /\ mutators \in MutatorLists
    /\ Unprepared

NextIter ==
    \/ Prepare
    \/ Iterator
    \/ \E i \in 1..Len(iters) : IterNext(i)

SpecIter == InitIter /\ [][NextIter]_vars

\* ------------------------------------------------- what the points should be
AllAxes == {GenAxes(g)[c] : g \in 1..Len(generators), c \in 1..Len(GenAxes(1))}

\* one index per generator
Combos ==
    {c \in [1..Len(generators) -> 0..(MaxNum - 1)] :
        \A g \in 1..Len(generators) : c[g] < generators[g].num}

ComboPositions(c) == [a \in AllAxes |-> Position(a, c[GenOf(a)])]

KeptBy(e, c) ==
    Keep(e, Position(e.scannables[1], c[GenOf(e.scannables[1])]),
            Position(e.scannables[2], c[GenOf(e.scannables[2])]))

KeptCombos == {c \in Combos : \A k \in 1..Len(excluders) : KeptBy(excluders[k], c)}

\* the place of a combination in the row-major order, first generator slowest
RECURSIVE RankFrom(_, _)
RankFrom(c, g) ==
    IF g > Len(generators) THEN 0
    ELSE c[g] * Prod([h \in 1..(Len(generators) - g) |-> generators[g + h].num])
            + RankFrom(c, g + 1)

Rank(c) == RankFrom(c, 1)

\* get_point(0), ..., get_point(num - 1): element n + 1 is get_point(n)
AllPoints == <<>> \o [k \in 1..num |-> PointOf(get_point(k - 1))]

NoAlternation == \A g \in 1..Len(generators) : ~generators[g].alt

Called == call.res.err = "" /\ call.n >= 0

\* ------------------------------------------------------------------ claims
ExactlyKept(pts, kept) ==
    /\ num = Cardinality(kept)
    /\ \A k \in DOMAIN pts :
          /\ pts[k].err = ""
          /\ \E c \in kept : pts[k].positions = ComboPositions(c)
          /\ \A m \in DOMAIN pts : m # k => pts[m].positions # pts[k].positions

\* C1: after a successful prepare() the points get_point(0..num-1) are exactly
\* the combinations of per-generator indexes that every excluder keeps: each
\* kept combination for exactly one n, no rejected one, num of them.
C1_PointsAreKeptCombos == outcome = "ok" => ExactlyKept(AllPoints, KeptCombos)

C1_Witness ==
    /\ outcome = "ok" /\ Called /\ call.n = num - 1
    /\ Len(generators) = MaxGens /\ Len(excluders) = MaxExcl
    /\ \E g \in 1..Len(generators) : generators[g].alt
    /\ \E g \in 1..Len(generators) : ~generators[g].alt
    /\ Cardinality(KeptCombos) + MaxExcl = Cardinality(Combos)

RowMajorKept(pts, kept) ==
    \A k \in DOMAIN pts :
        \E c \in kept :
            /\ pts[k].positions = ComboPositions(c)
            /\ Cardinality({b \in kept : Rank(b) < Rank(c)}) = k - 1

RowMajorAll(pts) ==
    /\ num = Prod([g \in 1..Len(generators) |-> generators[g].num])
    /\ \A k \in DOMAIN pts :
          pts[k].positions =
              ComboPositions([g \in 1..Len(generators) |->
                  ((k - 1) \div Prod([h \in 1..(Len(generators) - g) |->
                                          generators[g + h].num]))
                      % generators[g].num])

\* C2: when no generator alternates, get_point(0..num-1) is the row-major
\* enumeration of the Cartesian product of the generators (first generator
\* slowest), the combinations an excluder rejects removed and the order of the
\* others kept; with no excluders generator g's index at n is
\* (n div the product of the later counts) mod g.num.
C2_RowMajorOrder ==
    (outcome = "ok" /\ NoAlternation) =>
        /\ RowMajorKept(AllPoints, KeptCombos)
        /\ excluders = <<>> => RowMajorAll(AllPoints)

C2_Witness ==
    /\ outcome = "ok" /\ NoAlternation /\ Called /\ call.n = num - 1
    /\ Len(generators) = MaxGens /\ Len(excluders) > 0
    /\ Cardinality(KeptCombos) < Cardinality(Combos)
    /\ Len(dimensions) < Len(generators)

\* the raw positions an alternating Dimension d visits during lap L: one full
\* pass over d for a fixed combination of the outer Dimensions
LapSequence(d, L) ==
    [t \in 1..Len(dimensions[d].indicies) |->
        dimensions[d].indicies[
            get_point((L * Len(dimensions[d].indicies) + (t - 1))
                          * dimensions[d].repeat).indexes[d] + 1]]

\* the laps of Dimension d: the combinations of the Dimensions outside it
Laps(d) == Prod(SubSeq(IndexCounts(dimensions), 1, d - 1))

\* C3: an alternating Dimension nested under outer Dimensions with at least two
\* valid combinations visits, in every lap, its valid indexes in the reverse of
\* the order of the lap before, whether or not the outer Dimensions are masked.
C3_LapsAlternate ==
    outcome = "ok" =>
        \A d \in 1..Len(dimensions) :
            (dimensions[d].alternate /\ Laps(d) >= 2) =>
                \A L \in 1..(Laps(d) - 1) :
                    LapSequence(d, L) = Reverse(LapSequence(d, L - 1))

\* C4: after a successful prepare(), get_point(n) raises the range error for
\* every n outside [0, num) and returns a point for every n inside.
C4_RangeError ==
    (outcome = "ok" /\ call.res.err \notin {"NoCall", "AttributeError"}) =>
        /\ (call.n < 0 \/ call.n >= num) => call.res.err = "IndexError"
        /\ (0 <= call.n /\ call.n < num) => call.res.err = ""

BadExcluder(e) ==
    \/ GenOf(e.scannables[1]) - GenOf(e.scannables[2]) > 1
    \/ GenOf(e.scannables[2]) - GenOf(e.scannables[1]) > 1
    \/ generators[GenOf(e.scannables[1])].alt # generators[GenOf(e.scannables[2])].alt

\* C9: prepare() raises a configuration error when some excluder names axes of
\* generators more than one apart in the nesting order, or of Dimensions with
\* different alternate flags; when every excluder ties one generator or two
\* adjacent generators with equal flags it raises none, in any excluder order.
C9_ConfigError ==
    outcome # "none" =>
        (outcome = "ConfigError" <=> \E k \in 1..Len(excluders) : BadExcluder(excluders[k]))

C9_Witness ==
    /\ outcome = "ConfigError"
    /\ Len(excluders) = MaxExcl
    /\ ~BadExcluder(excluders[1])
    /\ Len(dimensions) < Len(generators)

C9_WitnessNoError ==
    /\ outcome = "ok"
    /\ Len(excluders) = MaxExcl
    /\ Len(dimensions) = 1 /\ Len(generators) = MaxGens

\* C10: once every excluder has been processed, every mask record of every
\* Dimension has len(mask) * repeat * tile = size and expands to exactly size
\* elements: the consistency assertion of prepare() never fires.
C10_MasksConsistent ==
    outcome \notin {"none", "ConfigError"} =>
        /\ outcome \in {"ok", "MaskError"}
        /\ \A d \in 1..Len(dimensions) :
              \A k \in 1..Len(dimensions[d].masks) :
                  /\ MaskConsistent(dimensions[d].masks[k], dimensions[d].size)
                  /\ Len(ExpandMask(dimensions[d].masks[k])) = dimensions[d].size

C10_Witness ==
    /\ outcome = "ok"
    /\ \E d \in 1..Len(dimensions) :
          /\ Len(dimensions[d].generators) = MaxGens
          /\ dimensions[d].alternate
          /\ Len(dimensions[d].masks) = MaxExcl
          /\ dimensions[d].masks[1].tile2 % 2 = 1
          /\ dimensions[d].masks[1].tile2 > 1

NothingKept == KeptCombos = {} /\ \A k \in 1..Len(excluders) : ~BadExcluder(excluders[k])

\* C5: when the combined mask of a Dimension is false everywhere prepare()
\* raises the mask error, and while the last prepare() has failed every
\* get_point(n) fails, also when an earlier prepare() had succeeded and left
\* its scaling behind.
C5_NoPointAfterMaskError ==
    /\ [][(Prepare /\ NothingKept) => outcome' = "MaskError"]_vars
    /\ [][(outcome \notin {"none", "ok"} /\ \E n \in CallRange : GetPoint(n))
            => call'.res.err # ""]_vars
    /\ [](outcome \notin {"none", "ok"} =>
            \A n \in (0 - Slack)..(num + Slack) : get_point(n).err # "")

C5_Witness ==
    /\ outcome = "MaskError"
    /\ DOMAIN generator_dim_scaling # {}
    /\ Len(dimensions) > 1
    /\ call.res.err = "ZeroDivisionError"

\* C6: prepare() is idempotent: on unchanged generators and excluders every
\* call after the first leaves num, the Dimensions and the per-generator
\* scaling as they were, so get_point(n), which reads nothing else, returns
\* the same point for every n.
C6_PrepareIdempotent == [][prepares >= 1 => UNCHANGED <<outcome, prepared>>]_vars

C6_Witness ==
    /\ prepares = MaxPrepares
    /\ outcome = "ok"
    /\ Len(excluders) = MaxExcl
    /\ Len(dimensions) < Len(generators)
    /\ num > 1

\* C7: after prepare(), get_point(n) changes no state of the compound
\* generator, so under any interleaving of the readers' calls every call returns
\* the point it returns when run alone.
C7_GetPointReadsOnly ==
    /\ [][readers' # readers => UNCHANGED <<config, outcome, prepared>>]_vars
    /\ [](\A r \in 1..NumReaders :
            (readers[r].pc = "done" /\ readers[r].p.err # "AttributeError") =>
                PointOf(readers[r].p) = PointOf(get_point(readers[r].n)))

C7_Witness ==
    /\ outcome = "ok"
    /\ Len(dimensions) > 1
    /\ dimensions[Len(dimensions)].alternate
    /\ readers[1].pc = "done" /\ readers[1].p.err = "" /\ readers[1].p.kc % 2 = 1
    /\ readers[2].pc = "running" /\ readers[2].d > 1
    /\ readers[1].n # readers[2].n

\* the points an iterator has to yield: get_point(k) changed by the first
\* mutator, the result by the second, and so on to the last
RECURSIVE Mutated(_, _)
Mutated(ms, p) ==
    IF ms = <<>> THEN p
    ELSE Mutate(ms[Len(ms)], Mutated(SubSeq(ms, 1, Len(ms) - 1), p))

\* C8: after prepare(), every iterator yields get_point(0), get_point(1), ...
\* up to get_point(num - 1) in that order and then ends, every point passed
\* through the mutators in registration order, however many iterators there are
\* and however their consumption is interleaved.
C8_IteratorYieldsAll ==
    \A i \in 1..Len(iters) :
        (outcome = "ok" /\ iters[i].state # "new" /\ iters[i].err # "AttributeError") =>
            /\ iters[i].err = ""
            /\ iters[i].n <= num
            /\ iters[i].out = [k \in 1..iters[i].n |->
                                  Mutated(mutators, PointOf(get_point(k - 1)))]
            /\ iters[i].state = "done" => iters[i].n = num

C8_Witness ==
    /\ outcome = "ok"
    /\ Len(iters) = MaxIters
    /\ Len(mutators) = MaxMutators /\ mutators[1] # mutators[MaxMutators]
    /\ Len(excluders) > 0 /\ num > MaxIters
    /\ iters[1].state = "done" /\ iters[1].err = "" /\ iters[1].n = num
    /\ iters[MaxIters].state = "running" /\ iters[MaxIters].n = 1

====
